---- MODULE Spec2Model ----
(***************************************************************************)
(* TechniSync: the two-phase reconciliation engine (SyncManager), the      *)
(* mirror store (DatabaseManager) and the upstream DNS servers it talks to *)
(* through TechnitiumDNSClient.                                            *)
(*                                                                         *)
(* Names, zones and addresses are sequences of labels ("www.example.com"   *)
(* is <<"www","example","com">>), so that suffix tests, split('.', 1) and  *)
(* reverse pointers are computed as the code computes them.  An rdata      *)
(* mapping is a sequence of <<field, value>> pairs (a Python dict keeps    *)
(* insertion order; equality ignores it).                                  *)
(***************************************************************************)
EXTENDS Integers, Sequences, FiniteSets, TLC

VARIABLES
    mirror,      \* dns_records table: sequence of rows in rowid order
    ownership,   \* zone_ownership table: zone -> owner server name or None
    zone_sync,   \* zone_sync table: set of <<zone, server>> with a last_synced row
    changes,     \* SyncManager.changes: <<server, zone>> -> add/update/delete counters
    upZones,     \* per server: the zones hosted upstream
    upRecs,      \* per server and zone: the records held upstream
    upScopes,    \* per server: the DHCP scopes configured upstream
    config,      \* config.ZONES_TO_SYNC and config.SYNC_REVERSE_ZONES, fixed at startup
    pc,          \* position of main()'s loop: sleep, ingest, propagate, summary
    idx,         \* index into config.SERVERS of the server sync() ingests next
    calls,       \* history: the client calls and owner writes of the current tick, in order
    tickOk,      \* history: no client call has raised in the current tick
    quiet,       \* history: no operator edit since the current tick started
    start,       \* history: the servers' records and the owners when the tick started
    lastEdit,    \* history: the most recent operator edit
    quietTicks,  \* history: ticks completed without failure since the last edit
    ticks,       \* number of ticks started
    edits,       \* number of operator edits made
    fault,       \* the failure the environment inflicts on the current tick
    faults,      \* number of ticks that met a failure of the environment
    wait         \* the seconds main() sleeps, or last slept, after a tick

vars == <<mirror, ownership, zone_sync, changes, upZones, upRecs, upScopes,
          config, pc, idx, calls, tickOk, quiet, start, lastEdit, quietTicks, ticks, edits,
          fault, faults, wait>>

-----------------------------------------------------------------------------
(* Bounds of the model *)

MaxTicks == 3
MaxEdits == 2
\* ticks that meet a failure of the environment
MaxFaults == 1
\* rows written to the mirror when the store is exercised alone
MaxRows == 2
\* a failing remote write is the first or the second of its propagation
MaxFailAt == 2

-----------------------------------------------------------------------------
(* Configuration (config.SERVERS) *)

Servers == <<"server1", "server2">>
ServerNames == {Servers[i] : i \in 1..Len(Servers)}
None == "None"

-----------------------------------------------------------------------------
(* Sequence helpers *)

RECURSIVE SetToSeq(_)
SetToSeq(S) ==
    IF S = {} THEN <<>>
    ELSE LET x == CHOOSE y \in S : TRUE IN <<x>> \o SetToSeq(S \ {x})

Range(s) == {s[i] : i \in 1..Len(s)}

EndsWith(s, suf) ==
    /\ Len(s) >= Len(suf)
    /\ SubSeq(s, Len(s) - Len(suf) + 1, Len(s)) = suf

Reverse(s) == [i \in 1..Len(s) |-> s[Len(s) + 1 - i]]

-----------------------------------------------------------------------------
(* Python dicts: a sequence of <<key, value>> pairs with distinct keys, in   *)
(* order of first insertion; assigning an existing key keeps its position.   *)

DictHas(d, k) == \E i \in 1..Len(d) : d[i][1] = k
DictGet(d, k) == d[CHOOSE i \in 1..Len(d) : d[i][1] = k][2]
DictPut(d, k, v) ==
    IF DictHas(d, k)
    THEN [i \in 1..Len(d) |-> IF d[i][1] = k THEN <<k, v>> ELSE d[i]]
    ELSE Append(d, <<k, v>>)
DictEq(a, b) == Range(a) = Range(b)

-----------------------------------------------------------------------------
(* models.py *)

DNSRecord(name, type, ttl, rdata) ==
    [name |-> name, type |-> type, ttl |-> ttl, rdata |-> rdata]

\* DNSRecord.__eq__: structural over all four fields, the ttl included
RecordEq(a, b) ==
    /\ a.name = b.name
    /\ a.type = b.type
    /\ a.ttl = b.ttl
    /\ DictEq(a.rdata, b.rdata)

is_reverse_zone(zone_name) ==
    \/ (EndsWith(zone_name, <<"in-addr", "arpa">>) /\ Len(zone_name) > 2)
    \/ (EndsWith(zone_name, <<"ip6", "arpa">>) /\ Len(zone_name) > 2)

internal_zones ==
    {<<"0", "in-addr", "arpa">>, <<"127", "in-addr", "arpa">>,
     <<"255", "in-addr", "arpa">>, <<"localhost">>}

Ip6ZeroSuffix == [i \in 1..33 |-> IF i <= 31 THEN "0" ELSE IF i = 32 THEN "ip6" ELSE "arpa"]

\* an engine that takes no zone for internal
is_internal_zone_never(zone_name) == FALSE

is_internal_zone(zone_name) ==
    \/ zone_name \in internal_zones
    \/ (EndsWith(zone_name, Ip6ZeroSuffix) /\ Len(zone_name) > Len(Ip6ZeroSuffix))

\* ipaddress reverse_pointer of an IPv4 address given as four octet labels
reverse_pointer(ip) == Reverse(ip) \o <<"in-addr", "arpa">>

ValidIPv4(ip) == Len(ip) = 4

\* IPv4Network(address/mask, strict=False).network_address, masks of whole octets
NetworkAddress(addr, mask) ==
    [i \in 1..4 |-> IF mask[i] = "255" THEN addr[i] ELSE "0"]

ValidMask(mask) ==
    /\ Len(mask) = 4
    /\ \A i \in 1..4 : mask[i] \in {"255", "0"}
    /\ \A i \in 1..3 : mask[i] = "0" => mask[i + 1] = "0"

get_reverse_zone_from_network(network_address, subnet_mask) ==
    IF ValidIPv4(network_address) /\ ValidMask(subnet_mask)
    THEN Tail(reverse_pointer(NetworkAddress(network_address, subnet_mask)))
    ELSE None

-----------------------------------------------------------------------------
(* json.dumps / json.loads on rdata mappings.  A JSON text is the sequence   *)
(* of its tokens: each key followed by its value, in the order written.     *)

\* the tokens of a mapping, pair after pair
RECURSIVE Tokens(_)
Tokens(d) ==
    IF d = <<>> THEN <<>> ELSE <<Head(d)[1], Head(d)[2]>> \o Tokens(Tail(d))

\* the mapping a token sequence denotes: a later pair of the same key replaces
\* the value of the earlier one
RECURSIVE Parse(_, _)
Parse(toks, acc) ==
    IF Len(toks) < 2 THEN acc
    ELSE Parse(SubSeq(toks, 3, Len(toks)), DictPut(acc, toks[1], toks[2]))

FieldOrder ==
    <<"exchange", "ipAddress", "nameServer", "preference", "ptrName", "text">>
FieldRank(f) == CHOOSE i \in 1..Len(FieldOrder) : FieldOrder[i] = f

\* json.dumps(rdata, sort_keys=True): the pairs in lexicographic key order
RECURSIVE SortPairs(_)
SortPairs(d) ==
    IF d = <<>> THEN <<>>
    ELSE LET i == CHOOSE j \in 1..Len(d) :
                      \A k \in 1..Len(d) : FieldRank(d[j][1]) <= FieldRank(d[k][1])
         IN <<d[i]>> \o SortPairs(SubSeq(d, 1, i - 1) \o SubSeq(d, i + 1, Len(d)))
json_dumps_sorted(rdata) == [json |-> Tokens(SortPairs(rdata))]
\* json.dumps(rdata): the pairs in the mapping's own order
json_dumps(rdata) == [json |-> Tokens(rdata)]
\* a parser that stops after the first pair of the text
json_loads_first(text) == Parse(SubSeq(text.json, 1, 2), <<>>)

\* json.loads: the mapping with the text's key order
json_loads(text) == Parse(text.json, <<>>)

\* an engine whose key is the name and the type, the rdata left out
record_key_identity(record) == <<record.name, record.type, json_dumps_sorted(<<>>)>>

\* SyncManager.record_key
record_key(record) == <<record.name, record.type, json_dumps_sorted(record.rdata)>>

RdataGet(rdata, field) == DictGet(rdata, field)

-----------------------------------------------------------------------------
(* The universe of zones, names and addresses the servers may hold *)

FZ == <<"example", "com">>
RZ == <<"0", "0", "10", "in-addr", "arpa">>
RZ1 == <<"1", "1", "1", "in-addr", "arpa">>
LZ == <<"localhost">>
ZoneUniverse == {FZ, RZ, RZ1, LZ}

WWW == <<"www", "example", "com">>
OLD == <<"old", "example", "com">>
IPa == <<"10", "0", "0", "1">>
IPb == <<"1", "1", "1", "1">>
PTRa == reverse_pointer(IPa)
TTLs == {300, 150}

-----------------------------------------------------------------------------
(* db_manager.py: the mirror store.  The dns_records table has the rowid as *)
(* its only key, so INSERT OR REPLACE meets no conflict and appends a row.  *)

Row(server_name, zone_name, record, op) ==
    [server |-> server_name, zone |-> zone_name, name |-> record.name,
     type |-> record.type, ttl |-> record.ttl, rdata |-> json_dumps(record.rdata),
     last_operation |-> op]

RowRecord(row) == DNSRecord(row.name, row.type, row.ttl, json_loads(row.rdata))

RECURSIVE MapRows(_)
MapRows(rows) ==
    IF rows = <<>> THEN <<>> ELSE <<RowRecord(Head(rows))>> \o MapRows(Tail(rows))

IsLive(server_name, zone_name, row) ==
    row.server = server_name /\ row.zone = zone_name /\ row.last_operation # "DELETE"
IsTombstone(server_name, zone_name, row) ==
    row.server = server_name /\ row.zone = zone_name /\ row.last_operation = "DELETE"

get_records(m, server_name, zone_name) ==
    MapRows(SelectSeq(m, LAMBDA row : IsLive(server_name, zone_name, row)))

get_deleted_records(m, server_name, zone_name) ==
    MapRows(SelectSeq(m, LAMBDA row : IsTombstone(server_name, zone_name, row)))

\* a store that upserts by identity: the rows of the same server, zone, name
\* and type, tombstones included, give way to the new row
add_or_update_record_upsert(m, server_name, zone_name, record) ==
    Append(SelectSeq(m, LAMBDA row :
                        ~(/\ row.server = server_name /\ row.zone = zone_name
                          /\ row.name = record.name /\ row.type = record.type)),
           Row(server_name, zone_name, record, "ADD"))

add_or_update_record(m, server_name, zone_name, record) ==
    Append(m, Row(server_name, zone_name, record, "ADD"))

mark_record_as_deleted(m, server_name, zone_name, record) ==
    Append(m, Row(server_name, zone_name, record, "DELETE"))

\* a store whose write to a zone that already has a row removes the row
set_zone_owner_removing(own, zone, owner) ==
    IF zone \in DOMAIN own
    THEN [z \in DOMAIN own \ {zone} |-> own[z]]
    ELSE [z \in DOMAIN own \cup {zone} |-> IF z = zone THEN owner ELSE own[z]]

get_zone_owner(own, zone) == IF zone \in DOMAIN own THEN own[zone] ELSE None

\* INSERT OR REPLACE on the UNIQUE zone column: the zone's row is replaced
set_zone_owner(own, zone, owner) ==
    [z \in (DOMAIN own) \cup {zone} |-> IF z = zone THEN owner ELSE own[z]]

RECURSIVE DistinctZones(_, _)
DistinctZones(m, acc) ==
    IF m = <<>> THEN acc
    ELSE DistinctZones(Tail(m),
                       IF Head(m).zone \in Range(acc) THEN acc ELSE Append(acc, Head(m).zone))
get_all_zones(m) == DistinctZones(m, <<>>)

-----------------------------------------------------------------------------
(* The engine's working state while a handler runs: the mirror, the tables, *)
(* the change tracker, the upstream servers and the history of calls.       *)

Ctx(m, own, ch, upz, upr, log, ok, phase, dflt, flt) ==
    [m |-> m, own |-> own, ch |-> ch, upz |-> upz, upr |-> upr, log |-> log,
     ok |-> ok, exc |-> FALSE, phase |-> phase, call |-> 0, dflt |-> dflt, fault |-> flt]

NoRecord == DNSRecord(<<>>, "", 0, <<>>)

LogEntry(c, op, server_name, zone, record, old_ttl) ==
    [phase |-> c.phase, call |-> c.call, op |-> op, server |-> server_name,
     zone |-> zone, name |-> record.name, type |-> record.type, ttl |-> record.ttl,
     rdata |-> record.rdata, old_ttl |-> old_ttl, old_rdata |-> <<>>, failed |-> FALSE]

Log(c, op, server_name, zone, record, old_ttl) ==
    [c EXCEPT !.log = Append(@, LogEntry(c, op, server_name, zone, record, old_ttl))]

\* an exception raised by a client call: recorded, and in flight until caught
Raise(c) == [c EXCEPT !.exc = TRUE, !.ok = FALSE]
Catch(c) == [c EXCEPT !.exc = FALSE]
\* the call just logged raises
Fail(c) == Raise([c EXCEPT !.log[Len(c.log)].failed = TRUE])

-----------------------------------------------------------------------------
(* Failures of the environment.  For the length of one tick: the zone list  *)
(* of one server cannot be fetched; or the zone list of one server can be   *)
(* fetched and the records of its zones cannot; or the mirror refuses every *)
(* write; or the mirror cannot be read when propagation begins; or the n-th *)
(* add, update or delete call of the propagation is refused by the server.  *)

NoFault == [kind |-> "none", server |-> None, n |-> 0]
Faults ==
    {[kind |-> k, server |-> s, n |-> 0] : k \in {"zones", "records"}, s \in ServerNames}
    \cup {[kind |-> k, server |-> None, n |-> 0] : k \in {"mirror_write", "mirror_read"}}
    \cup {[kind |-> "write", server |-> None, n |-> k] : k \in 1..MaxFailAt}

PropagateWrites(log) ==
    Cardinality({i \in 1..Len(log) :
                    log[i].phase = "propagate" /\ log[i].op \in {"add", "update", "delete"}})

\* the write call about to be issued is the one the server refuses
WriteRefused(c) ==
    /\ c.fault.kind = "write"
    /\ c.phase = "propagate"
    /\ PropagateWrites(c.log) + 1 = c.fault.n

\* sqlite raises out of a write of the mirror; Log records the attempt
db_add_or_update_record(c, server_name, zone_name, record) ==
    IF c.fault.kind = "mirror_write"
    THEN Fail(Log(c, "add_or_update_record", server_name, zone_name, record, 0))
    ELSE [c EXCEPT !.m = add_or_update_record(@, server_name, zone_name, record)]

db_mark_record_as_deleted(c, server_name, zone_name, record) ==
    IF c.fault.kind = "mirror_write"
    THEN Fail(Log(c, "mark_record_as_deleted", server_name, zone_name, record, 0))
    ELSE [c EXCEPT !.m = mark_record_as_deleted(@, server_name, zone_name, record)]

db_set_zone_owner(c, zone, owner) ==
    LET c1 == Log(c, "set_zone_owner", owner, zone, NoRecord, 0)
    IN IF c.fault.kind = "mirror_write" THEN Fail(c1)
       ELSE [c1 EXCEPT !.own = set_zone_owner(@, zone, owner)]

-----------------------------------------------------------------------------
(* dns_client.py and the server behind it *)

\* 'domain': name if name != '@' else zone
Domain(name, zone) == IF name = <<"@">> THEN zone ELSE name

\* TechnitiumDNSClient._format_rdata: the fields sent for a record type
FormatFields(record_type) ==
    CASE record_type \in {"A", "AAAA"} -> <<"ipAddress">>
      [] record_type = "CNAME" -> <<"cname">>
      [] record_type = "MX" -> <<"preference", "exchange">>
      [] record_type = "NS" -> <<"nameServer">>
      [] record_type = "TXT" -> <<"text">>
      [] record_type = "PTR" -> <<"ptrName">>
      [] OTHER -> <<>>
_format_rdata(record_type, data) ==
    LET f == FormatFields(record_type)
    IN SortPairs([i \in 1..Len(f) |-> <<f[i], RdataGet(data, f[i])>>])

SameUpstreamRecord(r, name, type, fields) ==
    r.name = name /\ r.type = type /\ DictEq(r.rdata, fields)

\* zones/list
ZoneList(c, server_name) == SetToSeq(c.upz[server_name])
get_zones(c, server_name) ==
    LET c1 == Log(c, "get_zones", server_name, <<>>, NoRecord, 0)
    IN IF c.fault.kind = "zones" /\ c.fault.server = server_name THEN Fail(c1) ELSE c1

\* zones/records/get: the zone's records; an error when the server has no such zone
RecordList(c, server_name, zone) == SetToSeq(c.upr[server_name][zone])
client_get_records(c, server_name, zone) ==
    LET c1 == Log(c, "get_records", server_name, zone, NoRecord, 0)
    IN IF c.fault.kind = "records" /\ c.fault.server = server_name THEN Fail(c1)
       ELSE IF zone \in c.upz[server_name] THEN c1 ELSE Fail(c1)

\* zones/records/add
add_record(c, server_name, zone, record) ==
    LET c1 == Log(c, "add", server_name, zone, record, 0)
        name == Domain(record.name, zone)
        fields == _format_rdata(record.type, record.rdata)
        kept == {r \in c.upr[server_name][zone] :
                    ~SameUpstreamRecord(r, name, record.type, fields)}
    IN IF WriteRefused(c) \/ zone \notin c.upz[server_name] THEN Fail(c1)
       ELSE [c1 EXCEPT !.upr[server_name][zone] =
                kept \cup {DNSRecord(name, record.type, record.ttl, fields)}]

\* zones/records/delete
delete_record(c, server_name, zone, record) ==
    LET c1 == Log(c, "delete", server_name, zone, record, 0)
        name == Domain(record.name, zone)
        fields == _format_rdata(record.type, record.rdata)
    IN IF WriteRefused(c) \/ zone \notin c.upz[server_name] THEN Fail(c1)
       ELSE [c1 EXCEPT !.upr[server_name][zone] =
                {r \in @ : ~SameUpstreamRecord(r, name, record.type, fields)}]

\* zones/records/update: old and new rdata and no ttl; the server gives the
\* record its own default ttl
update_record(c, server_name, zone, record, old_record) ==
    LET c0 == Log(c, "update", server_name, zone, record, old_record.ttl)
        c1 == [c0 EXCEPT !.log[Len(c0.log)].old_rdata = old_record.rdata]
        name == Domain(record.name, zone)
        old == _format_rdata(record.type, old_record.rdata)
        new == _format_rdata(record.type, record.rdata)
        held == \E r \in c.upr[server_name][zone] :
                    SameUpstreamRecord(r, name, record.type, old)
        kept == {r \in c.upr[server_name][zone] :
                    /\ ~SameUpstreamRecord(r, name, record.type, old)
                    /\ ~SameUpstreamRecord(r, name, record.type, new)}
    IN IF WriteRefused(c) \/ zone \notin c.upz[server_name] \/ ~held THEN Fail(c1)
       ELSE [c1 EXCEPT !.upr[server_name][zone] =
                kept \cup {DNSRecord(name, record.type, c.dflt, new)}]

\* zones/create
add_zone(c, server_name, zone) ==
    LET c1 == Log(c, "add_zone", server_name, zone, NoRecord, 0)
    IN IF zone \in c.upz[server_name] THEN Fail(c1)
       ELSE [c1 EXCEPT !.upz[server_name] = @ \cup {zone}]

-----------------------------------------------------------------------------
(* sync_manager.py: helpers *)

\* an engine that excludes no record type
excluded_nothing == {}

excluded_record_types ==
    {"SOA", "NS", "RRSIG", "NSEC", "NSEC3", "DNSKEY", "DS",
     "CDS", "CDNSKEY", "TSIG", "TKEY", "AXFR", "IXFR"}

should_sync_zone(cfg, zone_name) ==
    IF is_internal_zone(zone_name) THEN FALSE
    ELSE IF cfg.ZONES_TO_SYNC = <<>> THEN TRUE
    ELSE \/ zone_name \in Range(cfg.ZONES_TO_SYNC)
         \/ (cfg.SYNC_REVERSE_ZONES /\ is_reverse_zone(zone_name))

track_change(c, server_name, zone_name, change_type) ==
    [c EXCEPT !.ch[<<server_name, zone_name>>][change_type] = @ + 1]

ip_to_reverse_zone(ip_address) ==
    IF ValidIPv4(ip_address) THEN Tail(reverse_pointer(ip_address)) ELSE None

get_reverse_zone_owner(c, ip_address) ==
    LET reverse_zone == ip_to_reverse_zone(ip_address)
    IN IF reverse_zone # None THEN get_zone_owner(c.own, reverse_zone) ELSE None

\* record.name.split('.', 1)[1] raises IndexError on a name of one label
is_replicated_record(c, server_name, record) ==
    \E i \in 1..Len(Servers) :
        /\ Servers[i] # server_name
        /\ \E r \in Range(get_records(c.m, Servers[i], Tail(record.name))) :
               RecordEq(r, record)

\* "raise" when is_replicated_record is reached with a name it cannot split
is_valid_record_for_server(c, server_name, record) ==
    IF record.type \in {"A", "AAAA"}
    THEN LET reverse_zone_owner ==
                 get_reverse_zone_owner(c, RdataGet(record.rdata, "ipAddress"))
         IN IF reverse_zone_owner = None \/ reverse_zone_owner = server_name THEN "valid"
            ELSE IF Len(record.name) < 2 THEN "raise"
            ELSE IF is_replicated_record(c, server_name, record) THEN "valid"
            ELSE "invalid"
    ELSE "valid"

\* {record_key(r): r for r in records if r.type not in excluded}
RECURSIVE KeyedDict(_, _, _)
KeyedDict(records, excluded, acc) ==
    IF records = <<>> THEN acc
    ELSE LET r == Head(records)
         IN KeyedDict(Tail(records), excluded,
                      IF r.type \in excluded THEN acc ELSE DictPut(acc, record_key(r), r))

-----------------------------------------------------------------------------
(* SyncManager.process_records and sync_zone (phase 1, ingest) *)

\* an engine that mirrors a remote record again when it finds it tombstoned
ProcessRemote_readd(c, server_name, zone_name, key, remote_record, local_dict, deleted_dict) ==
    LET a == db_add_or_update_record(c, server_name, zone_name, remote_record)
    IN IF a.exc THEN a ELSE track_change(a, server_name, zone_name, "add")

\* the body of the loop over remote_dict, for one remote record
ProcessRemote(c, server_name, zone_name, key, remote_record, local_dict, deleted_dict) ==
    LET valid == is_valid_record_for_server(c, server_name, remote_record) IN
    IF valid = "raise" THEN Raise(c)
    ELSE IF valid = "invalid" THEN
        LET d1 == db_mark_record_as_deleted(c, server_name, zone_name, remote_record)
            c1 == track_change(d1, server_name, zone_name, "delete")
            ip == RdataGet(remote_record.rdata, "ipAddress")
            ptr_zone == ip_to_reverse_zone(ip)
            ptr_record == DNSRecord(reverse_pointer(ip), "PTR", remote_record.ttl,
                                    <<<<"ptrName", remote_record.name>>>>)
            d2 == db_mark_record_as_deleted(c1, server_name, ptr_zone, ptr_record)
        IN IF d1.exc THEN d1
           ELSE IF remote_record.type \in {"A", "AAAA"} /\ ptr_zone # None
           THEN IF d2.exc THEN d2 ELSE track_change(d2, server_name, ptr_zone, "delete")
           ELSE c1
    ELSE IF DictHas(deleted_dict, key) THEN
        LET c1 == delete_record(c, server_name, zone_name, remote_record)
        IN IF c1.exc THEN c1 ELSE track_change(c1, server_name, zone_name, "delete")
    ELSE IF ~DictHas(local_dict, key) THEN
        LET a == db_add_or_update_record(c, server_name, zone_name, remote_record)
        IN IF a.exc THEN a ELSE track_change(a, server_name, zone_name, "add")
    ELSE IF ~RecordEq(remote_record, DictGet(local_dict, key)) THEN
        LET u == db_add_or_update_record(c, server_name, zone_name, remote_record)
        IN IF u.exc THEN u ELSE track_change(u, server_name, zone_name, "update")
    ELSE c

RECURSIVE RemoteLoop(_, _, _, _, _, _)
RemoteLoop(c, server_name, zone_name, items, local_dict, deleted_dict) ==
    IF items = <<>> \/ c.exc THEN c
    ELSE RemoteLoop(ProcessRemote(c, server_name, zone_name, Head(items)[1],
                                  Head(items)[2], local_dict, deleted_dict),
                    server_name, zone_name, Tail(items), local_dict, deleted_dict)

RECURSIVE LocalLoop(_, _, _, _, _, _)
LocalLoop(c, server_name, zone_name, items, remote_dict, deleted_dict) ==
    IF items = <<>> \/ c.exc THEN c
    ELSE LET key == Head(items)[1]
             local_record == Head(items)[2]
             d == db_mark_record_as_deleted(c, server_name, zone_name, local_record)
             c1 == IF ~DictHas(remote_dict, key) /\ ~DictHas(deleted_dict, key)
                   THEN IF d.exc THEN d ELSE track_change(d, server_name, zone_name, "delete")
                   ELSE c
         IN LocalLoop(c1, server_name, zone_name, Tail(items), remote_dict, deleted_dict)

process_records(c, server_name, zone_name, remote_records, local_records, deleted_records) ==
    LET remote_dict == KeyedDict(remote_records, excluded_record_types, <<>>)
        local_dict == KeyedDict(local_records, excluded_record_types, <<>>)
        deleted_dict == KeyedDict(deleted_records, {}, <<>>)
    IN LocalLoop(RemoteLoop(c, server_name, zone_name, remote_dict, local_dict, deleted_dict),
                 server_name, zone_name, local_dict, remote_dict, deleted_dict)

\* an engine that takes the records it could not fetch for no records
sync_zone_fetch_empty(c, server_name, zone_name) ==
    LET c0 == client_get_records(c, server_name, zone_name)
        c1 == Catch(c0)
    IN Catch(process_records(c1, server_name, zone_name,
                             IF c0.exc THEN <<>> ELSE RecordList(c1, server_name, zone_name),
                             get_records(c1.m, server_name, zone_name),
                             get_deleted_records(c1.m, server_name, zone_name)))

\* every exception is caught and logged; zone_sync is not written
sync_zone(c, server_name, zone_name) ==
    LET c1 == client_get_records(c, server_name, zone_name)
    IN IF c1.exc THEN Catch(c1)
       ELSE Catch(process_records(c1, server_name, zone_name,
                                  RecordList(c1, server_name, zone_name),
                                  get_records(c1.m, server_name, zone_name),
                                  get_deleted_records(c1.m, server_name, zone_name)))

-----------------------------------------------------------------------------
(* Reverse zones and DHCP scopes *)

ensure_reverse_zone_exists(c, server_name, zone) ==
    LET c1 == get_zones(c, server_name)
    IN IF c1.exc THEN Catch(c1)
       ELSE IF zone \notin Range(ZoneList(c1, server_name))
       THEN LET c2 == add_zone(c1, server_name, zone)
            IN IF c2.exc THEN Catch(c2) ELSE track_change(c2, server_name, zone, "add")
       ELSE c1

RECURSIVE EnsureOnAll(_, _, _)
EnsureOnAll(c, zone, i) ==
    IF i > Len(Servers) THEN c
    ELSE EnsureOnAll(ensure_reverse_zone_exists(c, Servers[i], zone), zone, i + 1)

\* an engine that gives a derived reverse zone to the first configured server
\* other than the one reporting the scope
SyncScope_other_owner(c, server_name, scope) ==
    LET reverse_zone == get_reverse_zone_from_network(scope.networkAddress, scope.subnetMask)
        other == CHOOSE i \in 1..Len(Servers) :
                     /\ Servers[i] # server_name
                     /\ \A j \in 1..(i - 1) : Servers[j] = server_name
    IN IF reverse_zone # None
       THEN LET c1 == EnsureOnAll(c, reverse_zone, 1)
                c2 == db_set_zone_owner(c1, reverse_zone, Servers[other])
            IN IF c2.exc THEN c2 ELSE sync_zone(c2, server_name, reverse_zone)
       ELSE c

\* an engine that ingests the derived zone first, then sets its owner, then
\* ensures that the zone exists on the servers
SyncScope_ingest_first(c, server_name, scope) ==
    LET reverse_zone == get_reverse_zone_from_network(scope.networkAddress, scope.subnetMask)
    IN IF reverse_zone # None
       THEN LET c1 == sync_zone(c, server_name, reverse_zone)
                c2 == db_set_zone_owner(c1, reverse_zone, server_name)
            IN IF c2.exc THEN c2 ELSE EnsureOnAll(c2, reverse_zone, 1)
       ELSE c

\* the body of the loop over the scopes, for one scope
SyncScope(c, server_name, scope) ==
    LET reverse_zone == get_reverse_zone_from_network(scope.networkAddress, scope.subnetMask)
    IN IF reverse_zone # None
       THEN LET c1 == EnsureOnAll(c, reverse_zone, 1)
                c2 == db_set_zone_owner(c1, reverse_zone, server_name)
            IN IF c2.exc THEN c2 ELSE sync_zone(c2, server_name, reverse_zone)
       ELSE c

RECURSIVE ScopeLoop(_, _, _)
ScopeLoop(c, server_name, scopes) ==
    IF scopes = <<>> \/ c.exc THEN c
    ELSE ScopeLoop(SyncScope(c, server_name, Head(scopes)), server_name, Tail(scopes))

sync_dhcp_scopes(c, server_name, scopes) ==
    Catch(ScopeLoop(Log(c, "get_dhcp_scopes", server_name, <<>>, NoRecord, 0),
                    server_name, scopes))

-----------------------------------------------------------------------------
(* SyncManager.update_server_records and propagate_changes (phase 2) *)

\* first occurrence of a key wins: across servers in config order, and within
\* one server's rows in row order
RECURSIVE FirstWins(_, _)
FirstWins(records, acc) ==
    IF records = <<>> THEN acc
    ELSE LET r == Head(records)
         IN FirstWins(Tail(records),
                      IF r.type \in excluded_record_types \/ DictHas(acc, record_key(r))
                      THEN acc ELSE Append(acc, <<record_key(r), r>>))

RECURSIVE AllServerRecords(_, _, _)
AllServerRecords(m, zone, i) ==
    IF i > Len(Servers) THEN <<>>
    ELSE get_records(m, Servers[i], zone) \o AllServerRecords(m, zone, i + 1)

DictValues(d) == [i \in 1..Len(d) |-> d[i][2]]

\* an engine that takes the first configured server's view for the union
get_all_records_for_zone_first(m, zone) == get_records(m, Servers[1], zone)

get_all_records_for_zone(m, zone) == DictValues(FirstWins(AllServerRecords(m, zone, 1), <<>>))

\* first loop: delete what is not targeted, or is tombstoned for this server
RECURSIVE DeleteLoop(_, _, _, _, _, _)
DeleteLoop(c, server_name, zone, items, target_dict, deleted_dict) ==
    IF items = <<>> THEN c
    ELSE LET key == Head(items)[1]
             current_record == Head(items)[2]
             c1 == IF ~DictHas(target_dict, key) \/ DictHas(deleted_dict, key)
                   THEN LET d == delete_record(c, server_name, zone, current_record)
                        IN IF d.exc THEN Catch(d)
                           ELSE track_change(d, server_name, zone, "delete")
                   ELSE c
         IN DeleteLoop(c1, server_name, zone, Tail(items), target_dict, deleted_dict)

\* an engine that counts an add or an update whether or not the call succeeded
AddOrUpdate_counting(c, server_name, zone, key, record, current_dict) ==
    IF ~DictHas(current_dict, key)
    THEN track_change(Catch(add_record(c, server_name, zone, record)),
                      server_name, zone, "add")
    ELSE IF ~RecordEq(record, DictGet(current_dict, key))
    THEN track_change(Catch(update_record(c, server_name, zone, record,
                                          DictGet(current_dict, key))),
                      server_name, zone, "update")
    ELSE c

\* the add-or-update step shared by the A/AAAA branch and the general branch
AddOrUpdate(c, server_name, zone, key, record, current_dict) ==
    IF ~DictHas(current_dict, key)
    THEN LET a == add_record(c, server_name, zone, record)
         IN IF a.exc THEN Catch(a) ELSE track_change(a, server_name, zone, "add")
    ELSE IF ~RecordEq(record, DictGet(current_dict, key))
    THEN LET u == update_record(c, server_name, zone, record, DictGet(current_dict, key))
         IN IF u.exc THEN Catch(u) ELSE track_change(u, server_name, zone, "update")
    ELSE c

\* second loop: add or update what is targeted and not tombstoned for this server
RECURSIVE AddLoop(_, _, _, _, _, _)
AddLoop(c, server_name, zone, items, current_dict, deleted_dict) ==
    IF items = <<>> THEN c
    ELSE LET key == Head(items)[1]
             record == Head(items)[2]
             foreign == /\ record.type \in {"A", "AAAA"}
                        /\ LET o == get_reverse_zone_owner(
                                        c, RdataGet(record.rdata, "ipAddress"))
                           IN o # None /\ o # server_name
             c1 == IF DictHas(deleted_dict, key) THEN c
                   ELSE IF foreign
                   THEN AddOrUpdate(c, server_name, zone, key, record, current_dict)
                   ELSE AddOrUpdate(c, server_name, zone, key, record, current_dict)
         IN AddLoop(c1, server_name, zone, Tail(items), current_dict, deleted_dict)

\* an engine that runs the add loop before the delete loop
update_server_records_adds_first(c, server_name, zone, target_records, zone_owner) ==
    LET c0 == [c EXCEPT !.call = @ + 1]
        c1 == client_get_records(c0, server_name, zone)
        current_dict == KeyedDict(RecordList(c1, server_name, zone),
                                  excluded_record_types, <<>>)
        target_dict == KeyedDict(target_records, excluded_record_types, <<>>)
        deleted_dict == KeyedDict(get_deleted_records(c1.m, server_name, zone), {}, <<>>)
    IN IF c1.exc THEN Catch(c1)
       ELSE DeleteLoop(AddLoop(c1, server_name, zone, target_dict, current_dict, deleted_dict),
                       server_name, zone, current_dict, target_dict, deleted_dict)

update_server_records(c, server_name, zone, target_records, zone_owner) ==
    LET c0 == [c EXCEPT !.call = @ + 1]
        c1 == client_get_records(c0, server_name, zone)
        current_dict == KeyedDict(RecordList(c1, server_name, zone),
                                  excluded_record_types, <<>>)
        target_dict == KeyedDict(target_records, excluded_record_types, <<>>)
        deleted_dict == KeyedDict(get_deleted_records(c1.m, server_name, zone), {}, <<>>)
    IN IF c1.exc THEN Catch(c1)
       ELSE AddLoop(DeleteLoop(c1, server_name, zone, current_dict, target_dict, deleted_dict),
                    server_name, zone, target_dict, current_dict, deleted_dict)

\* the loop over the servers for one zone; the owner, when there is one, is skipped
RECURSIVE ServerLoop(_, _, _, _, _)
ServerLoop(c, zone, target_records, zone_owner, i) ==
    IF i > Len(Servers) THEN c
    ELSE IF Servers[i] = zone_owner
    THEN ServerLoop(c, zone, target_records, zone_owner, i + 1)
    ELSE LET c1 == IF is_reverse_zone(zone)
                   THEN ensure_reverse_zone_exists(c, Servers[i], zone) ELSE c
         IN ServerLoop(update_server_records(c1, Servers[i], zone, target_records, zone_owner),
                       zone, target_records, zone_owner, i + 1)

\* the target set of a zone: the owner's live rows, or every server's
TargetRecords(m, own, zone) ==
    IF get_zone_owner(own, zone) # None
    THEN get_records(m, get_zone_owner(own, zone), zone)
    ELSE get_all_records_for_zone(m, zone)

RECURSIVE ZoneLoop(_, _)
ZoneLoop(c, zones) ==
    IF zones = <<>> THEN c
    ELSE LET zone == Head(zones)
             c1 == IF is_internal_zone(zone) THEN c
                   ELSE ServerLoop(c, zone, TargetRecords(c.m, c.own, zone),
                                   get_zone_owner(c.own, zone), 1)
         IN ZoneLoop(c1, Tail(zones))

\* nothing catches what the mirror raises here: it leaves sync()
propagate_changes(c) ==
    IF c.fault.kind = "mirror_read"
    THEN Fail(Log(c, "get_all_zones", None, <<>>, NoRecord, 0))
    ELSE ZoneLoop(c, get_all_zones(c.m))

-----------------------------------------------------------------------------
(* SyncManager.sync and main(): one tick is the ingest of every configured  *)
(* server, then propagate_changes, then log_sync_summary.                   *)

RECURSIVE SyncZones(_, _, _, _)
SyncZones(c, cfg, server_name, zones) ==
    IF zones = <<>> \/ c.exc THEN c
    ELSE SyncZones(IF should_sync_zone(cfg, Head(zones))
                   THEN sync_zone(c, server_name, Head(zones)) ELSE c,
                   cfg, server_name, Tail(zones))

\* a sync() that goes on to the zones of a server whose zone list failed
SyncServer_unguarded(c, cfg, server_name, scopes) ==
    LET c1 == Catch(get_zones(c, server_name))
        c2 == SyncZones(c1, cfg, server_name, ZoneList(c1, server_name))
    IN Catch(IF cfg.SYNC_REVERSE_ZONES /\ ~c2.exc
             THEN sync_dhcp_scopes(c2, server_name, scopes) ELSE c2)

\* the body of sync()'s loop for one server, inside its try/except
SyncServer(c, cfg, server_name, scopes) ==
    LET c1 == get_zones(c, server_name)
        c2 == IF c1.exc THEN c1
              ELSE SyncZones(c1, cfg, server_name, ZoneList(c1, server_name))
    IN Catch(IF cfg.SYNC_REVERSE_ZONES /\ ~c2.exc
             THEN sync_dhcp_scopes(c2, server_name, scopes) ELSE c2)

\* a sync() that propagates as soon as the first server is ingested
NextPc_early(i) == "propagate"

\* where sync() goes after the i-th server: the next server, or propagation
NextPc(i) == IF i < Len(Servers) THEN "ingest" ELSE "propagate"

NoChanges == [p \in ServerNames \X ZoneUniverse |-> [add |-> 0, update |-> 0, delete |-> 0]]
NoStart == [recs |-> <<>>, own |-> <<>>, m |-> <<>>, ch |-> <<>>]
NoEdit == [kind |-> "none", server |-> None, zone |-> <<>>, key |-> <<>>, mirrored |-> FALSE]

\* config.SYNC_INTERVAL (its default), and the sleep of main()'s except branch
SYNC_INTERVAL == 300
FAILURE_SLEEP == 60

\* a main() that sleeps the interval whatever the outcome of the tick
SleepAfter_interval(raised) == SYNC_INTERVAL

\* the sleep of main()'s loop after sync() returned, or raised
SleepAfter(raised) == IF raised THEN FAILURE_SLEEP ELSE SYNC_INTERVAL

\* main()'s loop calls sync(); flt is what the environment does to this tick
StartTickWith(flt) ==
    /\ pc = "sleep"
    /\ ticks < MaxTicks
    /\ pc' = "ingest"
    /\ idx' = 1
    /\ ticks' = ticks + 1
    /\ calls' = <<>>
    /\ tickOk' = TRUE
    /\ quiet' = TRUE
    /\ start' = [recs |-> upRecs, own |-> ownership, m |-> mirror, ch |-> changes]
    /\ fault' = flt
    /\ UNCHANGED <<mirror, ownership, zone_sync, changes, upZones, upRecs, upScopes,
                   config, lastEdit, quietTicks, edits, wait>>

StartTick == StartTickWith(NoFault) /\ UNCHANGED faults

StartFaultyTick(flt) ==
    /\ faults < MaxFaults
    /\ faults' = faults + 1
    /\ StartTickWith(flt)

Ingest ==
    /\ pc = "ingest"
    /\ \E c \in {SyncServer(Ctx(mirror, ownership, changes, upZones, upRecs, calls,
                                tickOk, "ingest", 0, fault),
                           config, Servers[idx], SetToSeq(upScopes[Servers[idx]]))} :
          /\ mirror' = c.m
          /\ ownership' = c.own
          /\ changes' = c.ch
          /\ upZones' = c.upz
          /\ upRecs' = c.upr
          /\ calls' = c.log
          /\ tickOk' = c.ok
    /\ pc' = NextPc(idx)
    /\ idx' = idx + 1
    /\ UNCHANGED <<zone_sync, upScopes, config, quiet, start, lastEdit, quietTicks,
                   ticks, edits, fault, faults, wait>>

\* dflt: the ttl the server gives a record updated without one.  When
\* propagate_changes raises, sync() raises: log_sync_summary is not reached
\* and main() logs the error and sleeps
Propagate(dflt) ==
    /\ pc = "propagate"
    /\ \E c \in {propagate_changes(Ctx(mirror, ownership, changes, upZones, upRecs, calls,
                                       tickOk, "propagate", dflt, fault))} :
          /\ mirror' = c.m
          /\ ownership' = c.own
          /\ changes' = c.ch
          /\ upZones' = c.upz
          /\ upRecs' = c.upr
          /\ calls' = c.log
          /\ tickOk' = c.ok
          /\ pc' = IF c.exc THEN "sleep" ELSE "summary"
          /\ wait' = IF c.exc THEN SleepAfter(TRUE) ELSE wait
          /\ quietTicks' = IF c.exc THEN 0 ELSE quietTicks
    /\ UNCHANGED <<zone_sync, upScopes, config, idx, quiet, start, lastEdit,
                   ticks, edits, fault, faults>>

\* log_sync_summary clears the change tracker; sync() returns and main() sleeps
LogSummary ==
    /\ pc = "summary"
    /\ changes' = NoChanges
    /\ pc' = "sleep"
    /\ wait' = SleepAfter(FALSE)
    /\ quietTicks' = IF quiet /\ tickOk
                     THEN (IF quietTicks < MaxTicks THEN quietTicks + 1 ELSE quietTicks)
                     ELSE 0
    /\ start' = NoStart
    /\ calls' = <<>>
    /\ tickOk' = TRUE
    /\ quiet' = TRUE
    /\ idx' = 1
    /\ fault' = NoFault
    /\ UNCHANGED <<mirror, ownership, zone_sync, upZones, upRecs, upScopes, config,
                   lastEdit, ticks, edits, faults>>

-----------------------------------------------------------------------------
(* The operators of the servers: edits made upstream, outside the engine, at *)
(* any moment of a tick or between two ticks                                 *)

A_rec(name, ttl, ip) == DNSRecord(name, "A", ttl, <<<<"ipAddress", ip>>>>)
PTR_rec(name, ttl, target) == DNSRecord(name, "PTR", ttl, <<<<"ptrName", target>>>>)
NS_rec == DNSRecord(FZ, "NS", 300, <<<<"nameServer", <<"ns1", "example", "com">>>>>>)
LO_rec == A_rec(LZ, 300, <<"127", "0", "0", "1">>)
Scope10 == [networkAddress |-> <<"10", "0", "0", "0">>,
            subnetMask |-> <<"255", "255", "255", "0">>]

RecUniverse(zone) ==
    IF zone = FZ THEN {A_rec(WWW, 300, IPa), A_rec(WWW, 300, IPb), NS_rec}
    ELSE IF zone = RZ THEN {PTR_rec(PTRa, 300, WWW), PTR_rec(PTRa, 300, OLD)}
    ELSE {}

UpKeys(recs) == {record_key(r) : r \in recs}
LiveKeys(m, server_name, zone) == {record_key(r) : r \in Range(get_records(m, server_name, zone))}
DeadKeys(m, server_name, zone) ==
    {record_key(r) : r \in Range(get_deleted_records(m, server_name, zone))}

Edited(kind, s, z, r, mirrored) ==
    /\ edits' = edits + 1
    /\ quiet' = FALSE
    /\ quietTicks' = 0
    /\ lastEdit' = [kind |-> kind, server |-> s, zone |-> z, key |-> record_key(r),
                    mirrored |-> mirrored]
    /\ UNCHANGED <<mirror, ownership, zone_sync, changes, upZones, config, pc, idx,
                   calls, tickOk, start, ticks, fault, faults, wait>>

OperatorAdd(s, z, r) ==
    /\ edits < MaxEdits
    /\ z \in upZones[s]
    /\ r \in RecUniverse(z)
    /\ record_key(r) \notin UpKeys(upRecs[s][z])
    /\ upRecs' = [upRecs EXCEPT ![s][z] = @ \cup {r}]
    /\ Edited("add", s, z, r, FALSE)
    /\ UNCHANGED upScopes

\* mirrored: the record was held and mirrored for every server, tombstoned for
\* none, and the edit falls between two ticks
OperatorDelete(s, z, r) ==
    /\ edits < MaxEdits
    /\ r \in upRecs[s][z]
    /\ upRecs' = [upRecs EXCEPT ![s][z] = @ \ {r}]
    /\ Edited("delete", s, z, r,
              /\ pc = "sleep"
              /\ quietTicks > 0
              /\ \A t \in ServerNames :
                    /\ record_key(r) \in UpKeys(upRecs[t][z])
                    /\ record_key(r) \in LiveKeys(mirror, t, z)
                    /\ record_key(r) \notin DeadKeys(mirror, t, z))
    /\ UNCHANGED upScopes

OperatorSetTtl(s, z, r, ttl) ==
    /\ edits < MaxEdits
    /\ r \in upRecs[s][z]
    /\ r.type \notin excluded_record_types
    /\ ttl # r.ttl
    /\ upRecs' = [upRecs EXCEPT ![s][z] = (@ \ {r}) \cup {[r EXCEPT !.ttl = ttl]}]
    /\ Edited("ttl", s, z, r, FALSE)
    /\ UNCHANGED upScopes

OperatorAddScope(s) ==
    /\ edits < MaxEdits
    /\ Scope10 \notin upScopes[s]
    /\ upScopes' = [upScopes EXCEPT ![s] = @ \cup {Scope10}]
    /\ Edited("scope", s, RZ, NoRecord, FALSE)
    /\ UNCHANGED upRecs

-----------------------------------------------------------------------------
(* Initial states: an empty mirror, and servers holding some part of the    *)
(* universe.                                                                *)

Configs ==
    {[ZONES_TO_SYNC |-> <<>>, SYNC_REVERSE_ZONES |-> TRUE],
     [ZONES_TO_SYNC |-> <<FZ, LZ>>, SYNC_REVERSE_ZONES |-> FALSE]}

\* server1 hosts every zone; server2 may lack the reverse zone
InitZones == {[s \in ServerNames |-> IF s = Servers[1] \/ b THEN {FZ, LZ, RZ} ELSE {FZ, LZ}] :
                 b \in BOOLEAN}

InitRecs(zones) ==
    [s \in ServerNames |->
        [z \in ZoneUniverse |->
            IF z = LZ THEN {LO_rec}
            ELSE IF z = FZ
                 THEN IF s = Servers[1] THEN {A_rec(WWW, 300, IPb), NS_rec}
                      ELSE {A_rec(WWW, 300, IPb)}
            ELSE IF z = RZ /\ z \in zones[s] THEN {PTR_rec(PTRa, 300, OLD)}
            ELSE {}]]

Init ==
    /\ mirror = <<>>
    /\ ownership = <<>>
    /\ zone_sync = {}
    /\ changes = NoChanges
    /\ config \in Configs
    /\ upZones \in InitZones
    /\ upRecs = InitRecs(upZones)
    /\ upScopes \in {[s \in ServerNames |-> IF s = Servers[1] THEN sc ELSE {}] :
                        sc \in SUBSET {Scope10}}
    /\ pc = "sleep"
    /\ idx = 1
    /\ calls = <<>>
    /\ tickOk = TRUE
    /\ quiet = TRUE
    /\ start = NoStart
    /\ lastEdit = NoEdit
    /\ quietTicks = 0
    /\ ticks = 0
    /\ edits = 0
    /\ fault = NoFault
    /\ faults = 0
    /\ wait = 0

Next ==
    \/ StartTick
    \/ Ingest
    \/ \E dflt \in TTLs : Propagate(dflt)
    \/ LogSummary
    \/ \E s \in ServerNames : \E z \in ZoneUniverse : \E r \in RecUniverse(z) :
          OperatorAdd(s, z, r)
    \/ \E s \in ServerNames : \E z \in ZoneUniverse : \E r \in upRecs[s][z] :
          OperatorDelete(s, z, r)
    \/ \E s \in ServerNames : \E z \in ZoneUniverse : \E r \in upRecs[s][z] :
          \E ttl \in TTLs : OperatorSetTtl(s, z, r, ttl)
    \/ \E s \in ServerNames : OperatorAddScope(s)

Spec == Init /\ [][Next]_vars

\* the same program in an environment that fails: any tick may meet a failure,
\* and the operators edit before the first tick only
NextFaults ==
    \/ StartTick
    \/ \E flt \in Faults : StartFaultyTick(flt)
    \/ Ingest
    \/ \E dflt \in TTLs : Propagate(dflt)
    \/ LogSummary
    \/ /\ ticks = 0
       /\ \/ \E s \in ServerNames : \E z \in ZoneUniverse : \E r \in RecUniverse(z) :
                OperatorAdd(s, z, r)
          \/ \E s \in ServerNames : \E z \in ZoneUniverse : \E r \in upRecs[s][z] :
                OperatorDelete(s, z, r)
          \/ \E s \in ServerNames : \E z \in ZoneUniverse : \E r \in upRecs[s][z] :
                \E ttl \in TTLs : OperatorSetTtl(s, z, r, ttl)
          \/ \E s \in ServerNames : OperatorAddScope(s)

SpecFaults == Init /\ [][NextFaults]_vars

\* main() is one thread in a loop without exit: a sleep ends, and sync() comes
\* to its return or to its raise
TickStep ==
    \/ StartTick
    \/ \E flt \in Faults : StartFaultyTick(flt)
    \/ Ingest
    \/ \E dflt \in TTLs : Propagate(dflt)
    \/ LogSummary

\* a step of the loop is possible unless the bound on ticks is reached: each
\* of Ingest, Propagate and LogSummary has its position in the loop for only guard
TickEnabled == pc # "sleep" \/ ticks < MaxTicks

\* weak fairness of the loop, WF_vars(TickStep), with ENABLED <<TickStep>>_vars
\* written as the state predicate it equals
LoopRuns == []<>(~TickEnabled) \/ []<><<TickStep>>_vars

\* the scheduler alone: the loop of main() in the failing environment, the
\* servers left as they start
SpecLoop == Init /\ [][TickStep]_vars /\ LoopRuns

-----------------------------------------------------------------------------
(* The loop left to run for ever: the operators edit before the first tick  *)
(* only, no call meets a failure of the environment, and the ticks after    *)
(* the MaxTicks-th are no longer counted.                                   *)

StartLaterTick ==
    /\ pc = "sleep"
    /\ ticks = MaxTicks
    /\ pc' = "ingest"
    /\ idx' = 1
    /\ calls' = <<>>
    /\ tickOk' = TRUE
    /\ quiet' = TRUE
    /\ start' = [recs |-> upRecs, own |-> ownership, m |-> mirror, ch |-> changes]
    /\ fault' = NoFault
    /\ UNCHANGED <<mirror, ownership, zone_sync, changes, upZones, upRecs, upScopes,
                   config, lastEdit, quietTicks, edits, wait, ticks, faults>>

QuietStep ==
    \/ StartTick
    \/ StartLaterTick
    \/ Ingest
    \/ \E dflt \in TTLs : Propagate(dflt)
    \/ LogSummary

NextQuiet ==
    \/ QuietStep
    \/ /\ ticks = 0
       /\ \/ \E s \in ServerNames : \E z \in ZoneUniverse : \E r \in RecUniverse(z) :
                OperatorAdd(s, z, r)
          \/ \E s \in ServerNames : \E z \in ZoneUniverse : \E r \in upRecs[s][z] :
                OperatorDelete(s, z, r)
          \/ \E s \in ServerNames : \E z \in ZoneUniverse : \E r \in upRecs[s][z] :
                \E ttl \in TTLs : OperatorSetTtl(s, z, r, ttl)
          \/ \E s \in ServerNames : OperatorAddScope(s)

\* main() never stops: weak fairness of every step of the loop.  That of the
\* steps of sync() is written with the state predicate ENABLED equals for them,
\* the position in the loop being their only guard
SyncStep == Ingest \/ \E dflt \in TTLs : Propagate(dflt)
QuietRuns ==
    /\ WF_vars(StartTick \/ StartLaterTick)
    /\ WF_vars(LogSummary)
    /\ ([]<>(pc \notin {"ingest", "propagate"}) \/ []<><<SyncStep>>_vars)

SpecQuiet == Init /\ [][NextQuiet]_vars /\ QuietRuns

-----------------------------------------------------------------------------
(* The same program over servers that hold, besides the records of Init, an *)
(* address record at the apex of the forward zone, example.com A 10.0.0.1.  *)

APEX == A_rec(FZ, 300, IPa)

InitApex ==
    /\ mirror = <<>>
    /\ ownership = <<>>
    /\ zone_sync = {}
    /\ changes = NoChanges
    /\ config \in Configs
    /\ upZones \in InitZones
    /\ upRecs = [s \in ServerNames |-> [InitRecs(upZones)[s] EXCEPT ![FZ] = @ \cup {APEX}]]
    /\ upScopes \in {[s \in ServerNames |-> IF s = Servers[1] THEN sc ELSE {}] :
                        sc \in SUBSET {Scope10}}
    /\ pc = "sleep"
    /\ idx = 1
    /\ calls = <<>>
    /\ tickOk = TRUE
    /\ quiet = TRUE
    /\ start = NoStart
    /\ lastEdit = NoEdit
    /\ quietTicks = 0
    /\ ticks = 0
    /\ edits = 0
    /\ fault = NoFault
    /\ faults = 0
    /\ wait = 0

SpecApex == InitApex /\ [][Next]_vars

-----------------------------------------------------------------------------
(* The mirror store alone: records of every shape are written to an empty   *)
(* mirror with add_or_update_record and mark_record_as_deleted; calls keeps *)
(* what was handed to the store.                                            *)

MAIL == <<"mail", "example", "com">>
\* the rData mapping of an MX record, in either order of its fields
MX_rec(preference_first) ==
    DNSRecord(FZ, "MX", 300,
              IF preference_first
              THEN <<<<"preference", 10>>, <<"exchange", MAIL>>>>
              ELSE <<<<"exchange", MAIL>>, <<"preference", 10>>>>)

StoreRecs ==
    {A_rec(WWW, 300, IPa), A_rec(WWW, 150, IPb), PTR_rec(PTRa, 300, WWW), NS_rec,
     MX_rec(TRUE), MX_rec(FALSE)}

StoreCall(op, server_name, zone_name, record) ==
    [phase |-> "store", call |-> 0, op |-> op, server |-> server_name, zone |-> zone_name,
     name |-> record.name, type |-> record.type, ttl |-> record.ttl,
     rdata |-> record.rdata, old_ttl |-> 0, old_rdata |-> <<>>, failed |-> FALSE]

StoreUnchanged ==
    UNCHANGED <<ownership, zone_sync, changes, upZones, upRecs, upScopes, config, pc, idx,
                tickOk, quiet, start, lastEdit, quietTicks, ticks, edits, fault, faults,
                wait>>

StoreAdd(server_name, zone_name, record) ==
    /\ Len(mirror) < MaxRows
    /\ mirror' = add_or_update_record(mirror, server_name, zone_name, record)
    /\ calls' = Append(calls, StoreCall("add_or_update_record", server_name, zone_name, record))
    /\ StoreUnchanged

StoreDelete(server_name, zone_name, record) ==
    /\ Len(mirror) < MaxRows
    /\ mirror' = mark_record_as_deleted(mirror, server_name, zone_name, record)
    /\ calls' = Append(calls, StoreCall("mark_record_as_deleted", server_name, zone_name,
                                        record))
    /\ StoreUnchanged

NextStore ==
    \/ \E s \in ServerNames : \E z \in {FZ, RZ} : \E r \in StoreRecs : StoreAdd(s, z, r)
    \/ \E s \in ServerNames : \E z \in {FZ, RZ} : \E r \in StoreRecs : StoreDelete(s, z, r)

SpecStore == Init /\ [][NextStore]_vars

-----------------------------------------------------------------------------
(* Vocabulary of the properties *)

\* the record types the engine must leave alone, as the specification lists them
ExcludedTypes ==
    {"SOA", "NS", "RRSIG", "NSEC", "NSEC3", "DNSKEY", "DS",
     "CDS", "CDNSKEY", "TSIG", "TKEY", "AXFR", "IXFR"}

SyncedKeys(recs) == {record_key(r) : r \in {x \in recs : x.type \notin ExcludedTypes}}
TargetKeys(zone) == SyncedKeys(Range(TargetRecords(mirror, ownership, zone)))
SyncedZones == {z \in Range(get_all_zones(mirror)) : ~is_internal_zone(z)}

\* propagation has just ended, every call of the tick succeeded, nobody edited
TickDone == pc = "summary" /\ tickOk /\ quiet

WriteOps == {"add", "update", "delete"}
RowIdentity(row) == <<row.server, row.zone, row.name, row.type>>

-----------------------------------------------------------------------------
(* C1 -- Convergence: after a tick in which every call succeeded and no      *)
(* operator edited a server, every server's non-excluded records of every    *)
(* synced zone are, by record key, the zone's target set (the owner's live   *)
(* mirror rows, or the union of all servers' live mirror rows).              *)
C1_Convergence ==
    TickDone =>
        \A z \in SyncedZones : \A s \in ServerNames :
            SyncedKeys(upRecs[s][z]) = TargetKeys(z)

(* C2 -- Delete propagation: a record held and mirrored for every server,   *)
(* then deleted by an operator on one server (the owner, when the zone has   *)
(* one), is absent on every server once two further ticks have completed.    *)
C2_DeletePropagates ==
    ( /\ pc = "sleep"
      /\ lastEdit.kind = "delete"
      /\ lastEdit.mirrored
      /\ get_zone_owner(ownership, lastEdit.zone) \in {None, lastEdit.server}
      /\ quietTicks >= 2 )
    => \A s \in ServerNames : lastEdit.key \notin UpKeys(upRecs[s][lastEdit.zone])

(* C3 -- At most one mirror row per identity (server, zone, name, type):     *)
(* stated for the rows of one record (equal rdata), which is the case of a   *)
(* record ingested again with another ttl, or tombstoned after its ADD row.  *)
C3_OneRowPerIdentity ==
    \A i, j \in 1..Len(mirror) :
        ( /\ RowIdentity(mirror[i]) = RowIdentity(mirror[j])
          /\ mirror[i].rdata = mirror[j].rdata )
        => i = j

(* C4 -- Excluded-type purity: no add, update or delete call of a tick, in   *)
(* ingest or in propagation, is for a record of an excluded type, and no     *)
(* mirror row, ADD or DELETE, has an excluded type.                          *)
C4_ExcludedPurity ==
    /\ \A i \in 1..Len(calls) :
           calls[i].op \in WriteOps => calls[i].type \notin ExcludedTypes
    /\ \A i \in 1..Len(mirror) : mirror[i].type \notin ExcludedTypes

\* a tick has ingested and propagated a zone in which one server holds a record
\* of an excluded type that another server lacks, and has written to a server
C4_Witness ==
    /\ pc = "summary"
    /\ \E z \in SyncedZones : \E s, t \in ServerNames : \E r \in upRecs[s][z] :
           /\ r.type \in ExcludedTypes
           /\ z \in upZones[t]
           /\ record_key(r) \notin UpKeys(upRecs[t][z])
           /\ \E i \in 1..Len(mirror) : mirror[i].zone = z
           /\ \E i \in 1..Len(calls) :
                  calls[i].op \in WriteOps /\ calls[i].zone = z /\ calls[i].server = t

Abs(x) == IF x < 0 THEN 0 - x ELSE x

(* C5 -- TTL suppression: propagation issues no update call for a record     *)
(* whose ttl differs from the server's by less than 300 seconds.             *)
C5_TtlSuppression ==
    \A i \in 1..Len(calls) :
        calls[i].op = "update" => Abs(calls[i].ttl - calls[i].old_ttl) >= 300

(* C6 -- Ownership stickiness: a zone that has an ownership row has one in   *)
(* every later state.                                                        *)
C6_OwnershipSticky ==
    [][\A z \in DOMAIN ownership : z \in DOMAIN ownership']_vars

\* a zone that was owned when the tick started has been written again by the
\* ingest of a server that reports a scope for it
C6_Witness ==
    /\ pc \in {"propagate", "summary"}
    /\ \E z \in DOMAIN start.own :
           /\ z \in DOMAIN ownership
           /\ \E s \in ServerNames : \E sc \in upScopes[s] :
                  get_reverse_zone_from_network(sc.networkAddress, sc.subnetMask) = z
           /\ \E i \in 1..Len(calls) :
                  calls[i].op = "get_dhcp_scopes" /\ calls[i].phase = "ingest"

\* the reverse zones the scopes of a server derive
ScopeZones(s) ==
    {get_reverse_zone_from_network(sc.networkAddress, sc.subnetMask) : sc \in upScopes[s]}

(* C7 -- Ownership is never reassigned: once a zone has an owner, the owner  *)
(* is the same server in every later state.                                  *)
C7_NeverReassigned ==
    [][\A z \in DOMAIN ownership :
           z \in DOMAIN ownership' => ownership'[z] = ownership[z]]_vars

(* C7, as the engine has it -- the owner of a zone is set, and changed, by   *)
(* the ingest of a server that reports a DHCP scope deriving the zone, with  *)
(* reverse-zone syncing on, and to that server: the last such server         *)
(* ingested is the owner; nothing else sets or changes an owner.             *)
C7_LastIngestedOwns ==
    [][/\ \A z \in DOMAIN ownership' :
              (z \notin DOMAIN ownership \/ ownership[z] # ownership'[z])
              => /\ pc = "ingest" /\ idx' = idx + 1
                 /\ config.SYNC_REVERSE_ZONES
                 /\ z \in ScopeZones(Servers[idx])
                 /\ ownership'[z] = Servers[idx]
       /\ (pc = "ingest" /\ idx' = idx + 1 /\ config.SYNC_REVERSE_ZONES)
              => \A sc \in upScopes[Servers[idx]] :
                     LET z == get_reverse_zone_from_network(sc.networkAddress,
                                                            sc.subnetMask)
                     IN z # None => (z \in DOMAIN ownership' /\ ownership'[z] = Servers[idx])]_vars

\* a zone owned by one server when the tick started is owned by another now
C7_Witness ==
    \E z \in DOMAIN start.own :
        /\ z \in DOMAIN ownership
        /\ ownership[z] # start.own[z]
        /\ z \in ScopeZones(ownership[z])

(* C8 -- Ingest before propagation: within a tick, no call of the ingest     *)
(* phase follows a call of the propagation phase, no propagation call is     *)
(* made while a server is still to be ingested, and when propagation has     *)
(* run every configured server has been ingested before its first call.      *)
C8_IngestBeforePropagate ==
    /\ \A i, j \in 1..Len(calls) :
           (calls[i].phase = "propagate" /\ calls[j].phase = "ingest") => j < i
    /\ pc = "ingest" => \A i \in 1..Len(calls) : calls[i].phase = "ingest"
    /\ pc = "summary" =>
           \A s \in ServerNames :
               \E j \in 1..Len(calls) :
                   /\ calls[j].phase = "ingest"
                   /\ calls[j].op = "get_zones"
                   /\ calls[j].server = s
                   /\ \A i \in 1..Len(calls) : calls[i].phase = "propagate" => j < i

\* a tick whose ingest wrote the mirror and whose propagation wrote a server
C8_Witness ==
    /\ pc = "summary"
    /\ mirror # <<>>
    /\ \E i, j \in 1..Len(calls) :
           /\ calls[i].phase = "ingest" /\ calls[i].op = "get_records"
           /\ calls[j].phase = "propagate" /\ calls[j].op \in WriteOps

(* C9 -- Deletes before adds: within one update_server_records call every    *)
(* delete call precedes every add and update call, and at the end of the     *)
(* call the server holds none of the records the call deleted and, when      *)
(* every call succeeded, no record outside the target: a value the target    *)
(* has replaced is not held beside the new one.                              *)
C9_DeletesBeforeAdds ==
    /\ \A i, j \in 1..Len(calls) :
           ( /\ calls[i].phase = "propagate" /\ calls[j].phase = "propagate"
             /\ calls[i].call = calls[j].call
             /\ calls[i].op = "delete"
             /\ calls[j].op \in {"add", "update"} )
           => i < j
    /\ (pc = "summary" /\ quiet) =>
           \A i \in 1..Len(calls) :
               (calls[i].phase = "propagate" /\ calls[i].op = "delete")
               => record_key(DNSRecord(calls[i].name, calls[i].type, calls[i].ttl,
                                       calls[i].rdata))
                      \notin UpKeys(upRecs[calls[i].server][calls[i].zone])
    /\ TickDone =>
           \A z \in SyncedZones : \A s \in ServerNames \ {get_zone_owner(ownership, z)} :
               SyncedKeys(upRecs[s][z]) \subseteq TargetKeys(z)

\* one call has replaced a value: it deleted a record and added another of the
\* same name and type, and the server holds the new one and not the old one
C9_Witness ==
    /\ pc = "summary" /\ quiet
    /\ \E i, j \in 1..Len(calls) :
           /\ calls[i].phase = "propagate" /\ calls[j].phase = "propagate"
           /\ calls[i].call = calls[j].call
           /\ calls[i].op = "delete" /\ calls[j].op = "add"
           /\ calls[i].name = calls[j].name /\ calls[i].type = calls[j].type
           /\ ~DictEq(calls[i].rdata, calls[j].rdata)
           /\ \E r \in upRecs[calls[j].server][calls[j].zone] :
                  r.name = calls[j].name /\ DictEq(r.rdata, calls[j].rdata)
           /\ ~\E r \in upRecs[calls[i].server][calls[i].zone] :
                  r.name = calls[i].name /\ DictEq(r.rdata, calls[i].rdata)

(* C10 -- Authoritative mode overwrites: when a zone has owner A and another *)
(* server B holds a record with the name and type of one of A's records and  *)
(* an rdata A does not hold, then after one tick in which every call         *)
(* succeeded B holds A's record and not its own, and propagation has issued  *)
(* no add, update or delete against A for the zone.                          *)
C10_OwnerOverwrites ==
    TickDone =>
        \A z \in DOMAIN start.own :
            LET A == start.own[z] IN
            (z \in DOMAIN ownership /\ ownership[z] = A) =>
                \A B \in ServerNames \ {A} :
                    \A ra \in start.recs[A][z] : \A rb \in start.recs[B][z] :
                        ( /\ ra.name = rb.name /\ ra.type = rb.type
                          /\ ra.type \notin ExcludedTypes
                          /\ record_key(rb) \notin UpKeys(start.recs[A][z]) )
                        => /\ record_key(ra) \in UpKeys(upRecs[B][z])
                           /\ record_key(rb) \notin UpKeys(upRecs[B][z])
                           /\ \A i \in 1..Len(calls) :
                                  ~ ( /\ calls[i].phase = "propagate"
                                      /\ calls[i].op \in WriteOps
                                      /\ calls[i].server = A
                                      /\ calls[i].zone = z )

\* the keys of the non-excluded records the servers held when the tick started
StartUnion(z) == UNION {SyncedKeys(start.recs[s][z]) : s \in ServerNames}

\* the mirror holds no tombstone for the zone
NoTombstones(z) ==
    \A i \in 1..Len(mirror) : mirror[i].zone = z => mirror[i].last_operation # "DELETE"

AddRows(server_name, z, key) ==
    Cardinality({i \in 1..Len(mirror) :
                    /\ IsLive(server_name, z, mirror[i])
                    /\ record_key(RowRecord(mirror[i])) = key})

(* C12 -- New record propagates in one tick and is mirrored per server:      *)
(* starting from an empty mirror with a record on server A only, after       *)
(* exactly one tick in which every call succeeded server B holds the record  *)
(* and the mirror holds one ADD row of the record for A and one for B.       *)
C12_NewRecordMirrored ==
    (TickDone /\ ticks = 1) =>
        \A z \in SyncedZones : \A A, B \in ServerNames : \A r \in start.recs[A][z] :
            ( /\ A # B
              /\ r.type \notin ExcludedTypes
              /\ record_key(r) \notin UpKeys(start.recs[B][z]) )
            => /\ record_key(r) \in UpKeys(upRecs[B][z])
               /\ AddRows(A, z, record_key(r)) = 1
               /\ AddRows(B, z, record_key(r)) = 1

\* the internal zones, as the specification lists them
InternalZone(z) ==
    \/ z \in {<<"0", "in-addr", "arpa">>, <<"127", "in-addr", "arpa">>,
              <<"255", "in-addr", "arpa">>, <<"localhost">>}
    \/ /\ Len(z) > 33
       /\ \A i \in 1..33 :
              z[Len(z) - 33 + i] = (IF i <= 31 THEN "0" ELSE IF i = 32 THEN "ip6" ELSE "arpa")

\* networks and addresses inside the internal ranges
InternalNets ==
    {<<a, "0", "0", "0">> : a \in {"0", "127", "255"}} \X
    {<<"255", "0", "0", "0">>, <<"255", "255", "0", "0">>, <<"255", "255", "255", "0">>}
InternalIps == {<<a, "0", "0", "1">> : a \in {"0", "127", "255"}}

(* C13 -- Internal zones are never synced: whatever the allow-list and the   *)
(* reverse-zone switch, no mirror row belongs to an internal zone and no     *)
(* record call, record fetch or zone creation is issued for an internal      *)
(* zone; the zones derived from a DHCP scope or from an address (the PTR     *)
(* tombstone path) are never internal zones.                                 *)
C13_InternalNeverSynced ==
    /\ \A i \in 1..Len(mirror) : ~InternalZone(mirror[i].zone)
    /\ \A i \in 1..Len(calls) :
           calls[i].op \in WriteOps \cup {"add_zone", "get_records"}
           => ~InternalZone(calls[i].zone)
    /\ \A z \in DOMAIN ownership : ~InternalZone(z)
    /\ \A n \in InternalNets : ~InternalZone(get_reverse_zone_from_network(n[1], n[2]))
    /\ \A ip \in InternalIps : ~InternalZone(ip_to_reverse_zone(ip))

\* a tick has ingested and propagated while a server hosts an internal zone
\* with a record in it; under one configuration the allow-list names the zone
C13_Witness ==
    /\ pc = "summary"
    /\ LZ \in Range(config.ZONES_TO_SYNC)
    /\ \E s \in ServerNames : InternalZone(LZ) /\ LZ \in upZones[s] /\ upRecs[s][LZ] # {}
    /\ mirror # <<>>
    /\ \E i \in 1..Len(calls) : calls[i].phase = "propagate" /\ calls[i].op \in WriteOps

\* the steps of a scope's handling are in the history in the order: the scope
\* fetch from A, the zone list of every server read, the owner set to A, and
\* then the zone's records fetched from A
ScopeStepsInOrder(A, Z) ==
    \E i0, j, k \in 1..Len(calls) :
        /\ i0 < j /\ j < k
        /\ calls[i0].phase = "ingest" /\ calls[i0].op = "get_dhcp_scopes"
        /\ calls[i0].server = A
        /\ calls[j].op = "set_zone_owner" /\ calls[j].server = A /\ calls[j].zone = Z
        /\ calls[k].phase = "ingest" /\ calls[k].op = "get_records"
        /\ calls[k].server = A /\ calls[k].zone = Z
        /\ \A s \in ServerNames :
               \E e \in (i0 + 1)..(j - 1) : calls[e].op = "get_zones" /\ calls[e].server = s

\* the last server, in the order of ingest, whose scopes derive the zone
LastReporter(Z) ==
    Servers[CHOOSE i \in 1..Len(Servers) :
                /\ Z \in ScopeZones(Servers[i])
                /\ \A j \in (i + 1)..Len(Servers) : Z \notin ScopeZones(Servers[j])]

(* C14 -- Reverse-zone derivation: with reverse-zone syncing on, when server *)
(* A reports a DHCP scope deriving zone Z, by the end of a tick in which     *)
(* every call succeeded Z exists on every server, the owner of Z is A, and Z *)
(* was ingested from A after the zone was ensured on every server and the    *)
(* owner set.                                                                *)
C14_ReverseDerivation ==
    (TickDone /\ config.SYNC_REVERSE_ZONES) =>
        \A A \in ServerNames : \A Z \in ScopeZones(A) :
            /\ \A s \in ServerNames : Z \in upZones[s]
            /\ get_zone_owner(ownership, Z) = A
            /\ ScopeStepsInOrder(A, Z)

(* C14, as the engine has it -- the same, with the owner of Z at the end of  *)
(* the tick being the last server ingested that reports a scope deriving Z.  *)
C14_DerivationLastOwner ==
    (TickDone /\ config.SYNC_REVERSE_ZONES) =>
        \A A \in ServerNames : \A Z \in ScopeZones(A) :
            /\ \A s \in ServerNames : Z \in upZones[s]
            /\ get_zone_owner(ownership, Z) = LastReporter(Z)
            /\ ScopeStepsInOrder(A, Z)

\* a tick has derived a zone from a scope of a server, created it on a server
\* that lacked it, and made the reporting server its owner
C14_Witness ==
    /\ TickDone /\ config.SYNC_REVERSE_ZONES
    /\ \E A \in ServerNames : \E Z \in ScopeZones(A) :
           /\ ScopeStepsInOrder(A, Z)
           /\ get_zone_owner(ownership, Z) = A
           /\ \E i \in 1..Len(calls) :
                  calls[i].phase = "ingest" /\ calls[i].op = "add_zone" /\ calls[i].zone = Z

-----------------------------------------------------------------------------
(* Failures *)

RowsOf(m, server_name) == SelectSeq(m, LAMBDA row : row.server = server_name)

\* the zone list of server S cannot be fetched in the current tick
ZoneListDown(S) == fault.kind = "zones" /\ fault.server = S

\* the history has the ingest of server T: its zone list fetched, and the
\* records of each of its zones that pass the filter
IngestedIn(log, T) ==
    /\ \E i \in 1..Len(log) :
           /\ log[i].phase = "ingest" /\ log[i].op = "get_zones"
           /\ log[i].server = T /\ ~log[i].failed
    /\ \A z \in upZones[T] :
           should_sync_zone(config, z) =>
               \E i \in 1..Len(log) :
                   /\ log[i].phase = "ingest" /\ log[i].op = "get_records"
                   /\ log[i].server = T /\ log[i].zone = z /\ ~log[i].failed

\* the history has the propagation of zone z to server T
PropagatedIn(log, T, z) ==
    \E i \in 1..Len(log) :
        /\ log[i].phase = "propagate" /\ log[i].op = "get_records"
        /\ log[i].server = T /\ log[i].zone = z

(* C15 -- Per-server fetch failure is isolated: in a tick in which the zone  *)
(* list of server S cannot be fetched, no step creates, changes or           *)
(* tombstones a mirror row of S, the ingest of every other server is done,   *)
(* and propagate_changes runs to its end on the mirror as it stands: it      *)
(* reaches every server that is not the owner, for every zone of the mirror. *)
C15_FetchFailureIsolated ==
    [][\A S \in ServerNames : ZoneListDown(S) =>
          /\ RowsOf(mirror', S) = RowsOf(mirror, S)
          /\ pc = "ingest" =>
                /\ idx' = idx + 1
                /\ pc' = NextPc(idx)
                /\ Servers[idx] # S => IngestedIn(calls', Servers[idx])
                /\ Servers[idx] = S => \A z \in ZoneUniverse : upRecs'[S][z] = upRecs[S][z]
          /\ pc = "propagate" =>
                /\ pc' = "summary"
                /\ \A z \in Range(get_all_zones(mirror)) : \A T \in ServerNames :
                       (~is_internal_zone(z) /\ T # get_zone_owner(ownership, z))
                       => PropagatedIn(calls', T, z)]_vars

\* a tick whose zone list of S failed has ended: S holds records its mirror
\* rows do not show, rows of another server were written, and propagation
\* wrote to a server
C15_Witness ==
    /\ pc = "summary"
    /\ \E S \in ServerNames :
           /\ ZoneListDown(S)
           /\ RowsOf(mirror, S) = RowsOf(start.m, S)
           /\ \E z \in {FZ, RZ} : SyncedKeys(upRecs[S][z]) # LiveKeys(mirror, S, z)
           /\ \E T \in ServerNames \ {S} : Len(RowsOf(mirror, T)) > Len(RowsOf(start.m, T))
    /\ \E i \in 1..Len(calls) : calls[i].phase = "propagate" /\ calls[i].op \in WriteOps

\* a write of the mirror has failed during the ingest of the current tick
MirrorWriteFailed ==
    \E i \in 1..Len(calls) :
        /\ calls[i].failed /\ calls[i].phase = "ingest"
        /\ calls[i].op \in {"add_or_update_record", "mark_record_as_deleted"}

(* C16 -- Mirror write failure is fatal to the tick: once a mirror write     *)
(* (add_or_update_record or mark_record_as_deleted) has failed during        *)
(* ingest, the tick is aborted: no call of propagate_changes is issued in    *)
(* that tick, the tick does not reach its summary, and when the scheduler    *)
(* sleeps after it, it sleeps the failure back-off.                          *)
C16_MirrorWriteFatal ==
    MirrorWriteFailed =>
        /\ \A i \in 1..Len(calls) : calls[i].phase # "propagate"
        /\ pc # "summary"
        /\ pc = "sleep" => wait = FAILURE_SLEEP

\* the add, update and delete calls of the propagation that failed
FailedWrites(log) ==
    {i \in 1..Len(log) :
        log[i].phase = "propagate" /\ log[i].op \in WriteOps /\ log[i].failed}

\* the number of calls of one kind that the propagation made to a server for
\* a zone and that succeeded
Succeeded(log, op, T, z) ==
    Cardinality({i \in 1..Len(log) :
                    /\ log[i].phase = "propagate" /\ log[i].op = op
                    /\ log[i].server = T /\ log[i].zone = z /\ ~log[i].failed})

\* the propagation called the server for the record of that key, with or
\* without success
Attempted(log, op, T, z, key) ==
    \E i \in 1..Len(log) :
        /\ log[i].phase = "propagate" /\ log[i].op = op
        /\ log[i].server = T /\ log[i].zone = z /\ record_key(log[i]) = key

\* the propagation fetched the records of the zone from the server
FetchedIn(log, T, z) ==
    \E i \in 1..Len(log) :
        /\ log[i].phase = "propagate" /\ log[i].op = "get_records"
        /\ log[i].server = T /\ log[i].zone = z /\ ~log[i].failed

(* C17 -- Per-record write failure during propagation does not abort: when   *)
(* an add, update or delete call fails during a propagation, the propagation *)
(* still runs to its end in the same tick: every zone of the mirror is       *)
(* propagated to every server that is not its owner, every record of the     *)
(* zone that the server holds and must lose gets its delete call, every      *)
(* record it lacks and must have gets its add call; and the change tracker   *)
(* counts the calls that succeeded only.                                     *)
C17_WriteFailureContinues ==
    [][(pc = "propagate" /\ FailedWrites(calls') # {}) =>
          /\ pc' = "summary"
          /\ \A z \in Range(get_all_zones(mirror)) : \A T \in ServerNames :
                (~is_internal_zone(z) /\ T # get_zone_owner(ownership, z)) =>
                    /\ PropagatedIn(calls', T, z)
                    /\ FetchedIn(calls', T, z) =>
                          /\ \A k \in SyncedKeys(upRecs[T][z]) :
                                (k \notin TargetKeys(z) \/ k \in DeadKeys(mirror, T, z))
                                => Attempted(calls', "delete", T, z, k)
                          /\ \A k \in TargetKeys(z) :
                                (k \notin DeadKeys(mirror, T, z)
                                 /\ k \notin SyncedKeys(upRecs[T][z]))
                                => Attempted(calls', "add", T, z, k)
          /\ \A T \in ServerNames : \A z \in ZoneUniverse :
                /\ changes'[<<T, z>>].add - changes[<<T, z>>].add
                       = Succeeded(calls', "add", T, z) + Succeeded(calls', "add_zone", T, z)
                /\ changes'[<<T, z>>].update - changes[<<T, z>>].update
                       = Succeeded(calls', "update", T, z)
                /\ changes'[<<T, z>>].delete - changes[<<T, z>>].delete
                       = Succeeded(calls', "delete", T, z)]_vars

\* a propagation has ended in which a server refused a write call and a later
\* write call succeeded and was counted
C17_Witness ==
    /\ pc = "summary"
    /\ fault.kind = "write"
    /\ \E i \in FailedWrites(calls) : \E j \in (i + 1)..Len(calls) :
           /\ calls[j].op \in WriteOps /\ ~calls[j].failed
           /\ changes[<<calls[j].server, calls[j].zone>>][calls[j].op] > 0
           /\ changes[<<calls[i].server, calls[i].zone>>][calls[i].op] = 0

(* C18 -- Scheduler back-off: ticks run strictly one after another (a tick  *)
(* starts only from the sleep that follows the previous one); the sleep      *)
(* after a tick that returned normally is SYNC_INTERVAL; the sleep after a   *)
(* tick that raised is the fixed 60 s; and after either sleep another tick   *)
(* follows, as long as the bound on ticks allows one.                        *)
C18_SchedulerBackoff ==
    /\ [][/\ ticks' # ticks => (pc = "sleep" /\ pc' = "ingest" /\ ticks' = ticks + 1)
          /\ (pc = "summary" /\ pc' # pc) => (pc' = "sleep" /\ wait' = SYNC_INTERVAL)
          /\ pc = "propagate" =>
                IF fault.kind = "mirror_read"
                THEN pc' = "sleep" /\ wait' = FAILURE_SLEEP /\ changes' = changes
                ELSE pc' = "summary" /\ wait' = wait
          /\ wait' # wait => (pc' = "sleep" /\ pc \in {"propagate", "summary"})]_vars
    /\ \A k \in 0..(MaxTicks - 1) : (pc = "sleep" /\ ticks = k) ~> (ticks = k + 1)

\* a tick has started after the 60 s sleep that followed a tick that raised
C18_Witness ==
    /\ pc = "ingest"
    /\ wait = FAILURE_SLEEP
    /\ ticks > 1
    /\ fault.kind # "mirror_read"

-----------------------------------------------------------------------------
(* The store *)

\* what was handed to one of the two writes of the store for a server and zone
StoredBy(op, server_name, zone_name) ==
    {e \in Range(calls) : e.op = op /\ e.server = server_name /\ e.zone = zone_name}

KeysOf(records) == {record_key(r) : r \in records}

(* C19 -- Key canonicalization round-trip: the key of a record handed to     *)
(* add_or_update_record or mark_record_as_deleted is the key of the record   *)
(* read back from the row it wrote; so the keys get_records returns for a    *)
(* server and zone are the keys of the records stored with                   *)
(* add_or_update_record, and the keys get_deleted_records returns are the    *)
(* keys of those stored with mark_record_as_deleted.                         *)
C19_KeyRoundTrip ==
    /\ Len(mirror) = Len(calls)
    /\ \A i \in 1..Len(mirror) : record_key(RowRecord(mirror[i])) = record_key(calls[i])
    /\ \A s \in ServerNames : \A z \in {FZ, RZ} :
          /\ KeysOf(Range(get_records(mirror, s, z)))
                 = KeysOf(StoredBy("add_or_update_record", s, z))
          /\ KeysOf(Range(get_deleted_records(mirror, s, z)))
                 = KeysOf(StoredBy("mark_record_as_deleted", s, z))

\* an MX record whose mapping has preference before exchange was stored and is
\* read back by get_records, and another record was stored as deleted
C19_Witness ==
    /\ \E i \in 1..Len(calls) :
           /\ calls[i].op = "add_or_update_record"
           /\ calls[i].type = "MX"
           /\ calls[i].rdata[1][1] = "preference"
           /\ \E r \in Range(get_records(mirror, calls[i].server, calls[i].zone)) :
                  r.type = "MX" /\ record_key(r) = record_key(MX_rec(FALSE))
    /\ \E j \in 1..Len(calls) : calls[j].op = "mark_record_as_deleted"

(* C20 -- Tombstoned rows are hidden from the live view: in every reachable *)
(* state of the mirror, for every server and zone, no record key is returned *)
(* both by get_records and by get_deleted_records; so once a record has been *)
(* marked as deleted, get_records no longer returns a record of its key.     *)
C20_TombstonesHidden ==
    \A s \in ServerNames : \A z \in ZoneUniverse :
        LiveKeys(mirror, s, z) \cap DeadKeys(mirror, s, z) = {}

-----------------------------------------------------------------------------
(* Ingest, record by record *)

\* an address record on S whose address lies in a reverse zone owned by another
\* server, and of which no other server's live mirror rows hold an identical copy
ForeignAddress(S, r) ==
    /\ r.type \in {"A", "AAAA"}
    /\ LET o == get_zone_owner(ownership, ip_to_reverse_zone(RdataGet(r.rdata, "ipAddress")))
       IN o # None /\ o # S
    /\ ~\E T \in ServerNames \ {S} :
           \E x \in Range(get_records(mirror, T, Tail(r.name))) : RecordEq(x, r)

\* the step is the ingest of server S, and none of its calls failed
IngestOf(S) == pc = "ingest" /\ Servers[idx] = S /\ idx' = idx + 1 /\ tickOk /\ tickOk'

\* the zones of S that its ingest fetches in the loop over its zone list
IngestedZones(S) == {z \in upZones[S] : should_sync_zone(config, z)}

\* the ingest of the step called S to delete the record of that key
RevertedIn(log, S, z, key) ==
    \E i \in 1..Len(log) :
        /\ log[i].phase = "ingest" /\ log[i].op = "delete" /\ ~log[i].failed
        /\ log[i].server = S /\ log[i].zone = z /\ record_key(log[i]) = key

\* the remote records of (S, z) that the ingest finds tombstoned for (S, z)
StaleRemotes(S, z) ==
    {r \in upRecs[S][z] :
        r.type \notin ExcludedTypes /\ record_key(r) \in DeadKeys(mirror, S, z)}

ZonesCreated(log, S, z) ==
    Cardinality({i \in 1..Len(log) :
                    /\ log[i].phase = "ingest" /\ log[i].op = "add_zone" /\ ~log[i].failed
                    /\ log[i].server = S /\ log[i].zone = z})

(* C22 -- Ingest observations are not tracked as changes: an ingest step     *)
(* leaves the add and update counters of every (server, zone) as they were,  *)
(* but for the zones it created on a server; the rows it inserts or          *)
(* refreshes in the mirror are not counted.                                  *)
C22_ObservationsNotTracked ==
    [][pc = "ingest" =>
          \A S \in ServerNames : \A z \in ZoneUniverse :
              /\ changes'[<<S, z>>].add - changes[<<S, z>>].add
                     = ZonesCreated(calls', S, z) - ZonesCreated(calls, S, z)
              /\ changes'[<<S, z>>].update = changes[<<S, z>>].update]_vars

(* C23 -- zone_sync advances on successful ingest: when the ingest of a tick *)
(* in which no call has failed has fetched and processed the records of      *)
(* (S, Z), the zone_sync table holds a last_synced row for (Z, S).           *)
C23_ZoneSyncAdvances ==
    tickOk =>
        \A i \in 1..Len(calls) :
            (calls[i].phase = "ingest" /\ calls[i].op = "get_records" /\ ~calls[i].failed)
            => <<calls[i].zone, calls[i].server>> \in zone_sync

-----------------------------------------------------------------------------
(* Propagation, record by record *)

\* the position in the history of the first call of that kind that the
\* propagation made to the server for the record of that key; 0 when none
CallAt(log, op, T, z, key) ==
    LET I == {i \in 1..Len(log) :
                 /\ log[i].phase = "propagate" /\ log[i].op = op
                 /\ log[i].server = T /\ log[i].zone = z /\ record_key(log[i]) = key}
    IN IF I = {} THEN 0 ELSE CHOOSE i \in I : \A j \in I : i <= j

\* a target record t that the server must be given, and a record c of another
\* rdata that the server holds under the same name and type
RdataChange(T, z, t, c) ==
    /\ t \in Range(TargetRecords(mirror, ownership, z))
    /\ c \in upRecs[T][z]
    /\ t.type \notin ExcludedTypes
    /\ t.name = c.name /\ t.type = c.type /\ ~DictEq(t.rdata, c.rdata)
    /\ record_key(t) \notin DeadKeys(mirror, T, z)
    /\ record_key(t) \notin UpKeys(upRecs[T][z])

(* C24 -- An rdata change is delete + add, never update: every update call   *)
(* of a propagation has old rdata equal to new rdata; and when a target      *)
(* record differs in rdata from the record the server holds under the same   *)
(* name and type, the propagation calls the server to delete the held value  *)
(* and then to add the target value.                                         *)
C24_RdataChangeIsDeleteAdd ==
    [][pc = "propagate" =>
          /\ \A i \in 1..Len(calls') :
                calls'[i].op = "update" => DictEq(calls'[i].old_rdata, calls'[i].rdata)
          /\ \A z \in Range(get_all_zones(mirror)) : \A T \in ServerNames :
                (~is_internal_zone(z) /\ T # get_zone_owner(ownership, z)
                 /\ FetchedIn(calls', T, z))
                => \A t \in Range(TargetRecords(mirror, ownership, z)) :
                   \A c \in upRecs[T][z] :
                       RdataChange(T, z, t, c) =>
                           /\ CallAt(calls', "delete", T, z, record_key(c)) > 0
                           /\ CallAt(calls', "add", T, z, record_key(t))
                                  > CallAt(calls', "delete", T, z, record_key(c))]_vars

\* the server keeps its value c: it is itself a record of the target set, and
\* not tombstoned for the server
KeptValue(T, z, c) ==
    record_key(c) \in TargetKeys(z) /\ record_key(c) \notin DeadKeys(mirror, T, z)

(* C24, as the engine has it -- every update call of a propagation has old   *)
(* rdata equal to new rdata; and when a target record differs in rdata from  *)
(* a record the server holds under the same name and type, the propagation   *)
(* calls the server to add the target value, after the call to delete the    *)
(* held value when the held value is not itself in the target set or is      *)
(* tombstoned for the server; a held value that is in the target set, as the *)
(* second record of a record set is in shared mode, gets no delete call.     *)
C24_ReplacedUnlessTargeted ==
    [][pc = "propagate" =>
          /\ \A i \in 1..Len(calls') :
                calls'[i].op = "update" => DictEq(calls'[i].old_rdata, calls'[i].rdata)
          /\ \A z \in Range(get_all_zones(mirror)) : \A T \in ServerNames :
                (~is_internal_zone(z) /\ T # get_zone_owner(ownership, z)
                 /\ FetchedIn(calls', T, z))
                => \A t \in Range(TargetRecords(mirror, ownership, z)) :
                   \A c \in upRecs[T][z] :
                       RdataChange(T, z, t, c) =>
                           /\ CallAt(calls', "add", T, z, record_key(t)) > 0
                           /\ IF KeptValue(T, z, c)
                              THEN CallAt(calls', "delete", T, z, record_key(c)) = 0
                              ELSE /\ CallAt(calls', "delete", T, z, record_key(c)) > 0
                                   /\ CallAt(calls', "add", T, z, record_key(t))
                                          > CallAt(calls', "delete", T, z, record_key(c))]_vars

\* a propagation has ended that called a server to delete the value it held
\* and then to add, under the same name and type, a value of another rdata;
\* both calls succeeded and the server holds the new value only
C24_Witness ==
    /\ pc = "summary"
    /\ \E i, j \in 1..Len(calls) :
           /\ i < j
           /\ calls[i].phase = "propagate" /\ calls[i].op = "delete" /\ ~calls[i].failed
           /\ calls[j].phase = "propagate" /\ calls[j].op = "add" /\ ~calls[j].failed
           /\ calls[i].server = calls[j].server /\ calls[i].zone = calls[j].zone
           /\ calls[i].name = calls[j].name /\ calls[i].type = calls[j].type
           /\ ~DictEq(calls[i].rdata, calls[j].rdata)
           /\ record_key(calls[j]) \in UpKeys(upRecs[calls[j].server][calls[j].zone])
           /\ record_key(calls[i]) \notin UpKeys(upRecs[calls[i].server][calls[i].zone])

-----------------------------------------------------------------------------
(* Tombstones *)

TombstoneAt(m, i) == i \in 1..Len(m) /\ m[i].last_operation = "DELETE"

(* C25 -- Tombstones are never garbage-collected during a sync: a tombstone  *)
(* row of the mirror is, after every step of every tick, still the row it    *)
(* was, whatever the servers hold.                                           *)
C25_TombstonesKept ==
    [][\A i \in 1..Len(mirror) :
          TombstoneAt(mirror, i) => (TombstoneAt(mirror', i) /\ mirror'[i] = mirror[i])]_vars

\* a tick that began with a tombstone for (S, Z, key) has ingested S again and
\* written rows, another server holding a record of that key, and the
\* tombstone is still there
C25_Witness ==
    /\ pc \in {"propagate", "summary"}
    /\ Len(mirror) > Len(start.m)
    /\ \E i \in 1..Len(start.m) :
           /\ TombstoneAt(start.m, i)
           /\ TombstoneAt(mirror, i)
           /\ \E T \in ServerNames \ {mirror[i].server} :
                  record_key(RowRecord(mirror[i])) \in UpKeys(upRecs[T][mirror[i].zone])
           /\ \E j \in (Len(start.m) + 1)..Len(mirror) :
                  /\ mirror[j].server = mirror[i].server /\ mirror[j].zone = mirror[i].zone
                  /\ mirror[j].name = mirror[i].name /\ mirror[j].type = mirror[i].type
                  /\ mirror[j].last_operation = "ADD"

-----------------------------------------------------------------------------
(* Quiescence *)

\* the tick has made no add, update or delete call and written no mirror row
SilentTick ==
    /\ mirror = start.m
    /\ \A i \in 1..Len(calls) : calls[i].op \notin WriteOps

(* C26 -- Quiescence: with no edit after the first tick has begun, either    *)
(* calls keep failing, or the ticks come to a tick that makes no add, update *)
(* or delete call and writes no mirror row, every later tick being such a    *)
(* tick as well; also when the servers differ by a ttl only.                 *)
C26_Quiescence ==
    \/ []<>(pc = "summary" /\ ~tickOk)
    \/ <>[](pc = "summary" => SilentTick)

-----------------------------------------------------------------------------
(* Failed fetches *)

RowsAt(m, server_name, z) ==
    SelectSeq(m, LAMBDA row : row.server = server_name /\ row.zone = z)

\* the entries of the fetches of the records of a zone that failed in a phase
FailedFetches(log, phase) ==
    {i \in 1..Len(log) : log[i].phase = phase /\ log[i].op = "get_records" /\ log[i].failed}

\* the add, update and delete calls of the call of update_server_records that
\* made the fetch of entry i
WritesOfCall(log, i) ==
    {j \in 1..Len(log) : /\ log[j].phase = "propagate" /\ log[j].op \in WriteOps
                         /\ log[j].call = log[i].call}

(* C27 -- A failed fetch never deletes: a zone of a server whose records     *)
(* could not be fetched at ingest keeps its mirror rows as they were when    *)
(* the tick began, none tombstoned and none changed; and a call of           *)
(* update_server_records whose fetch of the server's records failed issues   *)
(* no add, update or delete.                                                 *)
C27_FailedFetchNeverDeletes ==
    pc \in {"ingest", "propagate", "summary"} =>
        /\ \A i \in FailedFetches(calls, "ingest") :
               RowsAt(mirror, calls[i].server, calls[i].zone)
                   = RowsAt(start.m, calls[i].server, calls[i].zone)
        /\ \A i \in FailedFetches(calls, "propagate") : WritesOfCall(calls, i) = {}

\* the records of a server holding live mirror rows could not be fetched, at
\* ingest and at propagation, while the server differs from the target
C27_Witness ==
    /\ pc = "summary"
    /\ \E i \in FailedFetches(calls, "ingest") : \E j \in FailedFetches(calls, "propagate") :
           /\ calls[j].server = calls[i].server /\ calls[j].zone = calls[i].zone
           /\ LiveKeys(mirror, calls[i].server, calls[i].zone) # {}
           /\ \E r \in Range(TargetRecords(mirror, ownership, calls[j].zone)) :
                  /\ r.type \notin ExcludedTypes
                  /\ r \notin upRecs[calls[j].server][calls[j].zone]

-----------------------------------------------------------------------------
(* Foreign-address records *)

\* the rows of (S, z), live or tombstones, that carry a key
RowsWith(m, S, z, op, key) ==
    Cardinality({i \in 1..Len(m) :
                    /\ m[i].server = S /\ m[i].zone = z
                    /\ (m[i].last_operation = "DELETE") = (op = "DELETE")
                    /\ record_key(RowRecord(m[i])) = key})

\* another server's mirror holds an identical record, in whatever zone
HeldElsewhere(S, r) ==
    \E T \in ServerNames \ {S} : \E z \in ZoneUniverse :
        \E x \in Range(get_records(mirror, T, z)) : RecordEq(x, r)

\* an address record of S whose address lies in a reverse zone owned by another
\* server, no other server's mirror holding an identical record
ForeignRecord(S, r) ==
    /\ r.type \in {"A", "AAAA"}
    /\ LET o == get_zone_owner(ownership, ip_to_reverse_zone(RdataGet(r.rdata, "ipAddress")))
       IN o # None /\ o # S
    /\ ~HeldElsewhere(S, r)

PtrOf(r) ==
    DNSRecord(reverse_pointer(RdataGet(r.rdata, "ipAddress")), "PTR", r.ttl,
              <<<<"ptrName", r.name>>>>)

\* the key is tombstoned in the ingest of S itself, as the PTR record of a
\* foreign address record of S
PtrOfForeign(S, z, key) ==
    \E z2 \in IngestedZones(S) : \E r2 \in upRecs[S][z2] :
        /\ ForeignRecord(S, r2)
        /\ ip_to_reverse_zone(RdataGet(r2.rdata, "ipAddress")) = z
        /\ record_key(PtrOf(r2)) = key

(* C28 -- Foreign-address records are tombstoned at ingest: the ingest of    *)
(* (S, Z) stores no ADD row for an address record of S whose address lies in *)
(* a reverse zone owned by another server and that no other server's mirror  *)
(* holds; it writes a tombstone for it under (S, Z) and one for its PTR      *)
(* record under (S, reverse zone), and counts a delete for each.  Every      *)
(* other remote record that is not excluded, not tombstoned and not yet in   *)
(* the mirror is stored as an ADD row.                                       *)
C28_ForeignAddressTombstoned ==
    [][\A S \in ServerNames : IngestOf(S) =>
          \A z \in IngestedZones(S) : \A r \in upRecs[S][z] :
              LET key == record_key(r)
                  rz == ip_to_reverse_zone(RdataGet(r.rdata, "ipAddress"))
              IN r.type \notin ExcludedTypes =>
                  IF ForeignRecord(S, r)
                  THEN /\ RowsWith(mirror', S, z, "ADD", key) = RowsWith(mirror, S, z, "ADD", key)
                       /\ RowsWith(mirror', S, z, "DELETE", key)
                              > RowsWith(mirror, S, z, "DELETE", key)
                       /\ RowsWith(mirror', S, rz, "DELETE", record_key(PtrOf(r)))
                              > RowsWith(mirror, S, rz, "DELETE", record_key(PtrOf(r)))
                       /\ changes'[<<S, z>>].delete > changes[<<S, z>>].delete
                       /\ changes'[<<S, rz>>].delete > changes[<<S, rz>>].delete
                  ELSE ( /\ key \notin DeadKeys(mirror, S, z)
                         /\ key \notin LiveKeys(mirror, S, z)
                         /\ ~PtrOfForeign(S, z, key) )
                       => RowsWith(mirror', S, z, "ADD", key) = 1]_vars

====
